---- MODULE Spec2Model ----
(***************************************************************************)
(* Model of the envi v3 struct loader and its file-watch reload protocol   *)
(* (src/envi.go, the revision with the content-hash cache and the error    *)
(* channel): Envi.Load / loadFile / watchFile, the per-field fileWatcher   *)
(* goroutine, Envi.Close and the error channel returned by Envi.Errors.    *)
(***************************************************************************)
EXTENDS Integers, Sequences, FiniteSets, TLC

(* ---------------------------------------------------------------- bounds *)
MaxLoads == 1        \* calls of Load on the one Envi
MaxCloses == 2       \* calls of Close on the one Envi
MaxFileOps == 2      \* writes and removals done by the outside world
MaxQueue == 2        \* events pending on one fsnotify watcher
MaxWatchErrs == 1    \* errors fsnotify delivers on watcher.Errors
MaxChanErrs == 101   \* the same, in the specification that fills the channel
MaxLoadCalls == 2    \* calls of Load in the specification of population
MaxOptions == 2      \* options given to a constructor of package filewatch
MaxChanges == 2      \* changes of the file a started FileWatcher observes

\* make(chan error, 100)
ErrChanCap == 100

(* ------------------------------------------------- the caller's records *)
\* Nested-record fields of the caller's Config Records, of the default type
\* (yaml), each with a default file path:
\*   A, B, C  tagged watch:"true", of a type with OnChange and OnError;
\*   W        tagged watch:"true", of a type without the two methods;
\*   N        not watched, tagged env:"EP" as well;
\*   P        not watched, declared as a pointer to the record.
Fields == {"A", "B", "C", "N", "W", "P"}

\* The default tag of a nested-record field: the path of its file.
PathOf(f) ==
    CASE f = "A" -> "d1/a" [] f \in {"B", "P"} -> "d1/b" [] OTHER -> "d2/c"

Paths == {PathOf(f) : f \in Fields}

\* filepath.Dir on the paths above.
Dir(p) == IF p \in {"d1/a", "d1/b"} THEN "d1" ELSE "d2"

\* filepath.Base on the paths above.
Base(p) == CASE p = "d1/a" -> "a" [] p = "d1/b" -> "b" [] OTHER -> "c"

Dirs == {Dir(p) : p \in Paths}

\* The Config Record types passed to Load, as the sequence of their
\* exported fields in declaration order.
CfgAB == <<"A", "B">>
CfgAC == <<"A", "C">>
CfgC == <<"C">>
Configs == {CfgAB, CfgAC}

\* Sub-fields of every nested record: K1 string `default:"dflt"`,
\* K2 string `required:"true"`.
Keys == {"K1", "K2"}
DefaultTag(k) == IF k = "K1" THEN "dflt" ELSE ""
RequiredTag(k) == IF k = "K2" THEN "true" ELSE ""
ZeroRecord == [k \in Keys |-> ""]

\* String fields of the root record:
\*   S1 string `default:"PAN" required:"true"`
\*   S2 string `env:"E1" required:"true"`
\*   S3 string `default:"envi-test" env:"E2"`
\*   T  string, without any tag
\*   u  string, unexported, without any tag
Scalars == {"S1", "S2", "S3"}
StringFields == Scalars \cup {"T", "u"}

\* The other fields of the root record: m is an unexported field of a record
\* type (a sync.Mutex, say), I an exported int `default:"1"`, J an exported
\* int without any tag, X an exported nested record
\* `type:"toml" default:"d2/c"`, Q an exported pointer to a nested record
\* `default:"d2/c"` and R an exported pointer to a string `default:"r"`, both
\* nil when Load is called.
RootFields == StringFields \cup Fields \cup {"m", "I", "J", "X", "Q", "R"}

\* field.CanSet(): the field is exported.
Exported(f) == f \notin {"u", "m"}

\* field.Kind() of the declared type.
Kind(f) ==
    CASE f \in StringFields -> "string"
      [] f \in {"P", "Q", "R"} -> "pointer"
      [] f \in Fields \cup {"m", "X"} -> "struct"
      [] OTHER -> "int"

\* The pointer fields that are nil when Load is called.
NilPointer(f) == f \in {"Q", "R"}

\* resolveValuePointer(field).Kind(): the pointer P is followed to its record;
\* Elem() of a nil pointer is the zero Value, whose kind is Invalid.
ResolvedKind(f) ==
    IF Kind(f) = "pointer"
    THEN IF NilPointer(f) THEN "invalid" ELSE "struct"
    ELSE Kind(f)

\* The tags of the root record's fields.
EnvTag(f) ==
    CASE f = "S2" -> "E1" [] f = "S3" -> "E2" [] f = "N" -> "EP" [] OTHER -> ""
FieldDefault(f) ==
    CASE f = "S1" -> "PAN"
      [] f = "S3" -> "envi-test"
      [] f = "I" -> "1"
      [] f \in Fields \cup {"X", "Q"} -> PathOf(f)
      [] f = "R" -> "r"
      [] OTHER -> ""
\* The type tag of a nested-record field and the keys of unmarshalMap.
TypeTag(f) == IF f = "X" THEN "toml" ELSE ""
UnmarshalTypes == {"yaml", "yml", "json", "text"}
\* typeVal := cmp.Or(typeTag, "yaml")
TypeVal(f) == IF TypeTag(f) # "" THEN TypeTag(f) ELSE "yaml"
FieldRequired(f) == IF f \in {"S1", "S2"} THEN "true" ELSE ""
WatchTag(f) == IF f \in {"A", "B", "C", "W"} THEN "true" ELSE ""

\* The environment variables the tags name and the values they may hold;
\* a variable that is not set reads as "".
EnvVars == {"E1", "E2", "EP"}
EnvValues(v) ==
    CASE v = "E1" -> {"", "dev"} [] v = "E2" -> {"", "my-service"} [] OTHER -> {"", "d1/a"}

\* Root records that Load is given beside the ones above.
CfgRoot == <<"u", "S1", "S2", "S3", "N">>
CfgPtr == <<"S1", "S2", "S3", "P">>
CfgMutex == <<"m", "S1", "S2", "S3">>
CfgW == <<"S1", "S2", "S3", "W">>
CfgNoTag == <<"S1", "S2", "S3", "T">>
CfgInt == <<"S1", "S2", "S3", "I">>
CfgBadType == <<"S1", "X", "S2">>
CfgIntNoTag == <<"S1", "J", "S2">>
CfgIntFirst == <<"S1", "I", "S2">>
CfgNilPtr == <<"S1", "Q", "S2">>
CfgNilStr == <<"S1", "R", "S2">>

(* -------------------------------------------------------- file contents *)
Missing == "MISSING"
\* File contents: four yaml documents (CE gives K2 the empty string) and one
\* that does not decode. Contents are the ones the general specifications
\* write.
ValidContents == {"CA", "CB", "CC", "CE"}
Contents == {"CA", "CB", "CC", "BAD"}

\* The mapping a yaml document decodes to.
Decode(blob) ==
    CASE blob = "CA" -> [K1 |-> "x", K2 |-> "y"]
      [] blob = "CB" -> [K2 |-> "z"]
      [] blob = "CE" -> [K1 |-> "v", K2 |-> ""]
      [] OTHER -> [K1 |-> "w"]

\* fmt.Sprintf("%x", md5.Sum(blob)); distinct contents have distinct sums.
Hash(blob) == <<"md5", blob>>
NoHash == <<>>

(* ---------------------------------------------------------------- state *)
VARIABLES
    files,        \* the file system: path -> content or Missing
    config,       \* the caller's nested records: field -> [key -> value]
    fileHashes,   \* Envi.fileHashes: path -> hash or NoHash
    fileWatchers, \* Envi.fileWatchers: directory -> Watch Entry or NoWatcher
    events,       \* directory -> events pending on its watcher.Events
    loops,        \* the fileWatcher goroutines, in the order they were started
    errorChan,    \* Envi.errorChan: the buffered errors
    chanClosed,   \* errorChan has been closed
    onChangeLog,  \* field -> the contents OnChange was invoked for
    onErrorLog,   \* field -> the errors OnError was invoked with
    errSeq,       \* errors raised so far (numbers the error values)
    load,         \* the running Load call and the result of the last one
    loads,        \* Load calls so far
    closeRet,     \* what the last Close call returned
    closes,       \* Close calls so far
    panicked,     \* the process has died of a run-time panic
    fileOps,      \* file operations so far
    watchErrs,    \* watcher errors so far
    environ,      \* the process environment: variable -> value ("" when unset)
    scalars,      \* the root record's string fields: field -> value
    seen,         \* what the caller's goroutine last read of a nested record
    newW,         \* filewatch: a call of NewYAMLFileWatcher/NewJSONFileWatcher
    startW,       \* filewatch: a FileWatcher started with Start(config)
    call          \* a call of handleDefaults or unmarshalText on its own

vars == <<files, config, fileHashes, fileWatchers, events, loops, errorChan,
          chanClosed, onChangeLog, onErrorLog, errSeq, load, loads, closeRet,
          closes, panicked, fileOps, watchErrs, environ, scalars, seen,
          newW, startW, call>>

\* The state no operation of Envi touches: package filewatch and the call of
\* a function on its own.
fwVars == <<newW, startW, call>>

NoWatcher == [exists |-> FALSE, open |-> FALSE, cancelled |-> FALSE,
              closeCalls |-> 0, closeFailed |-> FALSE]

\* The Errors slice of a CloseError: the number of errors recorded per handle.
NoErrors == [d \in Dirs |-> 0]

\* The caller has not read any nested record yet.
NotSeen == [field |-> "", rec |-> ZeroRecord, before |-> ZeroRecord,
            after |-> ZeroRecord, reloading |-> FALSE]

\* No function is called on its own.
NoCall == [fn |-> "none"]

\* Package filewatch at rest: no constructor called, no watcher started.
NotCalled == [phase |-> "idle"]
NotStarted == [phase |-> "idle"]

\* Load is not running; ret is what the last call returned and errs the
\* Errors of its ValidationError.
LoadIdle(ret) == [cfg |-> <<>>, idx |-> 0, ret |-> ret, errs |-> {}, err |-> ""]

\* Load returned the structural error e from loadConfig.
LoadError(e) == [LoadIdle("error") EXCEPT !.err = e]

\* New(), a zeroed Config Record and nothing done yet.
InitNew ==
    /\ config = [f \in Fields |-> ZeroRecord]
    /\ fileHashes = [p \in Paths |-> NoHash]
    /\ fileWatchers = [d \in Dirs |-> NoWatcher]
    /\ events = [d \in Dirs |-> <<>>]
    /\ loops = <<>>
    /\ errorChan = <<>>
    /\ chanClosed = FALSE
    /\ onChangeLog = [f \in Fields |-> <<>>]
    /\ onErrorLog = [f \in Fields |-> <<>>]
    /\ errSeq = 0
    /\ load = LoadIdle("none")
    /\ loads = 0
    /\ closeRet = [kind |-> "none", errs |-> NoErrors]
    /\ closes = 0
    /\ panicked = FALSE
    /\ fileOps = 0
    /\ watchErrs = 0
    /\ seen = NotSeen

\* New() and the files the configuration starts with; no variable is set in
\* the environment and the root record's strings are empty.
Init ==
    /\ files = [p \in Paths |-> "CA"]
    /\ environ = [v \in EnvVars |-> ""]
    /\ scalars = [f \in StringFields |-> IF f = "u" THEN "foo" ELSE ""]
    /\ newW = NotCalled
    /\ startW = NotStarted
    /\ call = NoCall
    /\ InitNew

\* New() with any environment, the root record's exported strings empty or
\* filled in by the caller, and files that decode.
InitLoad ==
    /\ files \in {fs \in [Paths -> {"CA", "CB", "CC"}] :
                     fs["d1/a"] = "CB" /\ fs["d1/b"] # "CB" /\ fs["d2/c"] # "CB"}
    /\ environ \in {e \in [EnvVars -> {"", "dev", "my-service", "d1/a"}] :
                       \A v \in EnvVars : e[v] \in EnvValues(v)}
    /\ \E old \in {"", "old"} :
          scalars = [f \in StringFields |-> IF f = "u" THEN "foo" ELSE old]
    /\ newW = NotCalled
    /\ startW = NotStarted
    /\ call = NoCall
    /\ InitNew

(* ------------------------------------------------------- pure functions *)
\* handleDefaults: every sub-field with a non-empty default tag is set to it.
handleDefaults(rec) ==
    [k \in Keys |-> IF DefaultTag(k) # "" THEN DefaultTag(k) ELSE rec[k]]

\* yaml.Unmarshal of a document that decodes: keys present overwrite.
unmarshal(blob, rec) ==
    [k \in Keys |-> IF k \in DOMAIN Decode(blob) THEN Decode(blob)[k] ELSE rec[k]]

\* loadFileRest without the comparison with the cached hash.
loadFileRestNoHashCheck(rec, hashes, path, blob) ==
    IF blob = Missing
    THEN [rec |-> rec, hashes |-> hashes, changed |-> FALSE, err |-> "read"]
    ELSE IF blob \notin ValidContents
    THEN [rec |-> rec, hashes |-> [hashes EXCEPT ![path] = Hash(blob)],
          changed |-> FALSE, err |-> "unmarshal"]
    ELSE [rec |-> unmarshal(blob, rec),
          hashes |-> [hashes EXCEPT ![path] = Hash(blob)],
          changed |-> TRUE, err |-> ""]

\* loadFile after handleDefaults: read, compare and store the hash, unmarshal.
\* Yields the record, the hash cache, the callOnChange flag and the error.
loadFileRest(rec, hashes, path, blob) ==
    IF blob = Missing
    THEN [rec |-> rec, hashes |-> hashes, changed |-> FALSE, err |-> "read"]
    ELSE IF hashes[path] = Hash(blob)
    THEN [rec |-> rec, hashes |-> hashes, changed |-> FALSE, err |-> ""]
    ELSE IF blob \notin ValidContents
    THEN [rec |-> rec, hashes |-> [hashes EXCEPT ![path] = Hash(blob)],
          changed |-> FALSE, err |-> "unmarshal"]
    ELSE [rec |-> unmarshal(blob, rec),
          hashes |-> [hashes EXCEPT ![path] = Hash(blob)],
          changed |-> TRUE, err |-> ""]

\* loadFile as Load calls it, in one piece.
loadFile(rec, hashes, path, blob) ==
    loadFileRest(handleDefaults(rec), hashes, path, blob)

\* validate: the fields tagged required:"true" that hold their zero value.
\* It descends into the fields whose own kind is struct, and names a string
\* field of the root as <<field, "">>.
validate(cfg, strs, conf) ==
    {fk \in {<<cfg[i], k>> : i \in DOMAIN cfg, k \in Keys} :
        /\ Kind(fk[1]) = "struct"
        /\ fk[1] \in Fields
        /\ RequiredTag(fk[2]) = "true"
        /\ conf[fk[1]][fk[2]] = ""}
    \cup
    {fk \in {<<cfg[i], "">> : i \in DOMAIN cfg} :
        /\ fk[1] \in StringFields
        /\ FieldRequired(fk[1]) = "true"
        /\ strs[fk[1]] = ""}

\* validate calls field.Interface() on every field of kind struct, which
\* panics on a value obtained from an unexported field.
validatePanics(cfg) ==
    \E i \in DOMAIN cfg : Kind(cfg[i]) = "struct" /\ ~Exported(cfg[i])

\* os.Getenv.
Getenv(name) == IF name \in EnvVars THEN environ[name] ELSE ""

\* cmp.Or with the arguments the other way round.
cmpOrDefaultFirst(a, b) == IF b # "" THEN b ELSE a

\* cmp.Or on two strings: the first one that is not empty.
cmpOr(a, b) == IF a # "" THEN a ELSE b

\* The path loadConfig resolves for nested-record field f (filepath.Abs
\* keeps distinct paths distinct).
ResolvedPath(f) == cmpOr(Getenv(EnvTag(f)), FieldDefault(f))

\* A send that makes room by discarding the oldest pending error.
sendDropOldest(ch, e) ==
    IF Len(ch) < ErrChanCap THEN Append(ch, e) ELSE Append(Tail(ch), e)

\* The non-blocking send of fileWatcher: enqueue when there is space, else drop.
sendNonBlocking(ch, e) ==
    IF Len(ch) < ErrChanCap THEN Append(ch, e) ELSE ch

\* A Close that returns at the first handle that fails to close.
closeAllShortCircuit(ws, failing) ==
    [d \in Dirs |->
        IF ~ws[d].exists \/ (failing # {} /\ d \notin failing) THEN ws[d]
        ELSE [exists |-> TRUE,
              open |-> ws[d].open /\ d \in failing,
              cancelled |-> TRUE,
              closeCalls |-> ws[d].closeCalls + 1,
              closeFailed |-> d \in failing]]

\* Envi.Close from the loop on: every Watch Entry is cancelled and its handle
\* closed; failing is the set of directories whose handle fails to close.
closeAll(ws, failing) ==
    [d \in Dirs |->
        IF ~ws[d].exists THEN ws[d]
        ELSE [exists |-> TRUE,
              open |-> ws[d].open /\ d \in failing,
              cancelled |-> TRUE,
              closeCalls |-> ws[d].closeCalls + 1,
              closeFailed |-> d \in failing]]

\* The errors Envi.Close appends: one for every handle whose Close failed.
closeErrors(ws, failing) ==
    [d \in Dirs |-> IF ws[d].exists /\ d \in failing THEN 1 ELSE 0]

\* The types of the nested records that implement envi.FileWatcher.
FileWatcherTypes == {"A", "B", "C"}

\* A goroutine about to start; before is the record as it was when the
\* reload in progress took the mutex.
NewLoop(f) == [field |-> f, pc |-> "start", held |-> FALSE, changed |-> FALSE,
               sameHash |-> FALSE, err |-> "", blob |-> "", before |-> ZeroRecord]

(* ----------------------------------------------------------------- Load *)
\* Load is called with the record of type c (at most max calls over the run).
LoadStart(c, max) ==
    /\ ~panicked
    /\ load.idx = 0
    /\ loads < max
    /\ load' = [cfg |-> c, idx |-> 1, ret |-> "running", errs |-> {}, err |-> ""]
    /\ loads' = loads + 1
    /\ UNCHANGED <<files, config, fileHashes, fileWatchers, events, loops,
                   errorChan, chanClosed, onChangeLog, onErrorLog, errSeq,
                   closeRet, closes, panicked, fileOps, watchErrs,
                   environ, scalars, seen, fwVars>>

\* watchFile for field f: outcome is what fsnotify does when a Watch Entry
\* has to be created ("ok", "newFail": NewWatcher fails, "addFail": Add fails).
watchFile(f, outcome) ==
    LET d == Dir(ResolvedPath(f)) IN
    IF fileWatchers[d].exists
    THEN /\ outcome = "ok"
         /\ loops' = Append(loops, NewLoop(f))
         /\ load' = [load EXCEPT !.idx = @ + 1]
         /\ UNCHANGED fileWatchers
    ELSE CASE outcome = "newFail" ->
              /\ load' = LoadIdle("error")
              /\ UNCHANGED <<fileWatchers, loops>>
           [] outcome = "addFail" ->
              /\ fileWatchers' = [fileWatchers EXCEPT ![d] =
                     [NoWatcher EXCEPT !.exists = TRUE]]
              /\ load' = LoadIdle("error")
              /\ UNCHANGED loops
           [] OTHER ->
              /\ fileWatchers' = [fileWatchers EXCEPT ![d] =
                     [NoWatcher EXCEPT !.exists = TRUE, !.open = TRUE]]
              /\ loops' = Append(loops, NewLoop(f))
              /\ load' = [load EXCEPT !.idx = @ + 1]

\* The structural error loadConfig returns for the exported field f, "" when
\* there is none: the tags are looked at before the kind, the type tag of a
\* nested record before its file, and a kind that is neither record nor
\* string ends in the default case of the switch.
structuralErrorKindFirst(f) ==
    IF ResolvedKind(f) \notin {"struct", "string"} THEN "InvalidKindError"
    ELSE IF EnvTag(f) = "" /\ FieldDefault(f) = "" THEN "MissingTagError"
    ELSE IF ResolvedKind(f) = "struct" /\ TypeVal(f) \notin UnmarshalTypes
    THEN "InvalidTagError"
    ELSE ""

structuralError(f) ==
    IF EnvTag(f) = "" /\ FieldDefault(f) = "" THEN "MissingTagError"
    ELSE IF ResolvedKind(f) = "struct" /\ TypeVal(f) \notin UnmarshalTypes
    THEN "InvalidTagError"
    ELSE IF ResolvedKind(f) \notin {"struct", "string"} THEN "InvalidKindError"
    ELSE ""

\* The InvalidKindError for field f is built with field.Type().Name(), which
\* panics on the zero Value.
LoadFieldPanics(f) ==
    /\ Exported(f)
    /\ structuralError(f) = "InvalidKindError"
    /\ ResolvedKind(f) = "invalid"

\* One iteration of loadConfig's loop over the fields: an unexported field is
\* skipped; a structural error ends the call; a nested record is loaded from
\* its file and watched when tagged so; a string is set from the environment
\* or the default.
LoadField ==
    /\ ~panicked
    /\ load.idx \in 1..Len(load.cfg)
    /\ LET f == load.cfg[load.idx] IN
       IF ~Exported(f)
       THEN /\ load' = [load EXCEPT !.idx = @ + 1]
            /\ UNCHANGED <<config, fileHashes, fileWatchers, loops, scalars>>
       ELSE IF structuralError(f) # ""
       THEN /\ load' = IF LoadFieldPanics(f) THEN LoadIdle("panic")
                       ELSE LoadError(structuralError(f))
            /\ UNCHANGED <<config, fileHashes, fileWatchers, loops, scalars>>
       ELSE IF ResolvedKind(f) = "struct"
       THEN LET p == ResolvedPath(f)
                r == loadFile(config[f], fileHashes, p, files[p])
            IN /\ config' = [config EXCEPT ![f] = r.rec]
               /\ fileHashes' = r.hashes
               /\ IF r.err # ""
                  THEN /\ load' = LoadIdle("error")
                       /\ UNCHANGED <<fileWatchers, loops>>
                  ELSE IF WatchTag(f) = "true"
                  THEN \E outcome \in {"ok", "newFail", "addFail"} : watchFile(f, outcome)
                  ELSE /\ load' = [load EXCEPT !.idx = @ + 1]
                       /\ UNCHANGED <<fileWatchers, loops>>
               /\ UNCHANGED scalars
       ELSE /\ scalars' = [scalars EXCEPT ![f] = cmpOr(Getenv(EnvTag(f)), FieldDefault(f))]
            /\ load' = [load EXCEPT !.idx = @ + 1]
            /\ UNCHANGED <<config, fileHashes, fileWatchers, loops>>
    /\ panicked' = LoadFieldPanics(load.cfg[load.idx])
    /\ UNCHANGED <<files, events, errorChan, chanClosed, onChangeLog, onErrorLog,
                   errSeq, loads, closeRet, closes, fileOps, watchErrs,
                   environ, seen, fwVars>>

\* Load after loadConfig returned nil: validate and return.
LoadValidate ==
    /\ ~panicked
    /\ load.idx = Len(load.cfg) + 1
    /\ load.idx > 1
    /\ IF validatePanics(load.cfg)
       THEN /\ load' = LoadIdle("panic")
            /\ panicked' = TRUE
       ELSE /\ load' = [LoadIdle(IF validate(load.cfg, scalars, config) = {}
                                 THEN "nil" ELSE "validation")
                           EXCEPT !.errs = validate(load.cfg, scalars, config)]
            /\ UNCHANGED panicked
    /\ UNCHANGED <<files, config, fileHashes, fileWatchers, events, loops,
                   errorChan, chanClosed, onChangeLog, onErrorLog, errSeq, loads,
                   closeRet, closes, fileOps, watchErrs,
                   environ, scalars, seen, fwVars>>

(* ------------------------------------------------ fileWatcher goroutine *)
LoopDir(i) == Dir(PathOf(loops[i].field))

\* The type assertion to FileWatcher at the start of the goroutine.
LoopStart(i) ==
    /\ ~panicked
    /\ loops[i].pc = "start"
    /\ loops' = [loops EXCEPT ![i].pc =
           IF loops[i].field \in FileWatcherTypes THEN "select" ELSE "done"]
    /\ UNCHANGED <<files, config, fileHashes, fileWatchers, events, errorChan,
                   chanClosed, onChangeLog, onErrorLog, errSeq, load, loads,
                   closeRet, closes, panicked, fileOps, watchErrs,
                   environ, scalars, seen, fwVars>>

\* case <-ctx.Done()
LoopCtxDone(i) ==
    /\ ~panicked
    /\ loops[i].pc = "select"
    /\ fileWatchers[LoopDir(i)].cancelled
    /\ loops' = [loops EXCEPT ![i].pc = "done"]
    /\ UNCHANGED <<files, config, fileHashes, fileWatchers, events, errorChan,
                   chanClosed, onChangeLog, onErrorLog, errSeq, load, loads,
                   closeRet, closes, panicked, fileOps, watchErrs,
                   environ, scalars, seen, fwVars>>

\* A receive from the closed Events or Errors channel: !ok.
LoopChanClosed(i) ==
    /\ ~panicked
    /\ loops[i].pc = "select"
    /\ ~fileWatchers[LoopDir(i)].open
    /\ loops' = [loops EXCEPT ![i].pc = "done"]
    /\ UNCHANGED <<files, config, fileHashes, fileWatchers, events, errorChan,
                   chanClosed, onChangeLog, onErrorLog, errSeq, load, loads,
                   closeRet, closes, panicked, fileOps, watchErrs,
                   environ, scalars, seen, fwVars>>

\* The event ev makes the goroutine of field f reload: it names f's file and
\* it is a create or a write.
startsReloadAnyName(f, ev) == ev.op \in {"create", "write"}

startsReload(f, ev) ==
    /\ Base(ev.name) = Base(PathOf(f))
    /\ ev.op \in {"create", "write"}

\* case event := <-watcher.Events, up to and including mutex.Lock().
LoopEvent(i) ==
    /\ ~panicked
    /\ loops[i].pc = "select"
    /\ fileWatchers[LoopDir(i)].open
    /\ events[LoopDir(i)] # <<>>
    /\ LET ev == Head(events[LoopDir(i)]) IN
       /\ events' = [events EXCEPT ![LoopDir(i)] = Tail(@)]
       /\ IF startsReload(loops[i].field, ev)
          THEN IF loops[i].held
               THEN loops' = [loops EXCEPT ![i].pc = "blocked"]
               ELSE loops' = [loops EXCEPT ![i].pc = "defaults", ![i].held = TRUE,
                                           ![i].before = config[loops[i].field]]
          ELSE UNCHANGED loops
    /\ UNCHANGED <<files, config, fileHashes, fileWatchers, errorChan,
                   chanClosed, onChangeLog, onErrorLog, errSeq, load, loads,
                   closeRet, closes, panicked, fileOps, watchErrs,
                   environ, scalars, seen, fwVars>>

\* loadFile, first part: handleDefaults on the live record.
LoopDefaults(i) ==
    /\ ~panicked
    /\ loops[i].pc = "defaults"
    /\ config' = [config EXCEPT ![loops[i].field] = handleDefaults(@)]
    /\ loops' = [loops EXCEPT ![i].pc = "read"]
    /\ UNCHANGED <<files, fileHashes, fileWatchers, events, errorChan,
                   chanClosed, onChangeLog, onErrorLog, errSeq, load, loads,
                   closeRet, closes, panicked, fileOps, watchErrs,
                   environ, scalars, seen, fwVars>>

\* loadFile, second part: read the file, compare the hash, unmarshal.
LoopRead(i) ==
    /\ ~panicked
    /\ loops[i].pc = "read"
    /\ LET f == loops[i].field
           p == PathOf(f)
           r == loadFileRest(config[f], fileHashes, p, files[p])
       IN /\ config' = [config EXCEPT ![f] = r.rec]
          /\ fileHashes' = r.hashes
          /\ loops' = [loops EXCEPT ![i] =
                 [@ EXCEPT !.pc = IF r.err # "" THEN "fail" ELSE "unlock",
                           !.changed = r.changed,
                           !.sameHash = (files[p] # Missing
                                         /\ fileHashes[p] = Hash(files[p])),
                           !.err = r.err,
                           !.blob = files[p]]]
    /\ UNCHANGED <<files, fileWatchers, events, errorChan, chanClosed,
                   onChangeLog, onErrorLog, errSeq, load, loads, closeRet,
                   closes, panicked, fileOps, watchErrs,
                   environ, scalars, seen, fwVars>>

\* Load is about to call loadFile, which reads and writes e.fileHashes.
LoadAtCache ==
    /\ load.idx \in 1..Len(load.cfg)
    /\ Exported(load.cfg[load.idx])
    /\ structuralError(load.cfg[load.idx]) = ""
    /\ ResolvedKind(load.cfg[load.idx]) = "struct"

\* The goroutines about to read and write e.fileHashes in loadFile.
AtCache == {i \in DOMAIN loops : loops[i].pc = "read"}

\* e.fileHashes is a plain map and the only lock a goroutine holds is its
\* own: when another goroutine, or Load, is at the map as well, the run time
\* may end the process ("concurrent map read and map write") instead of
\* letting LoopRead happen.
LoopCacheRace(i) ==
    /\ ~panicked
    /\ loops[i].pc = "read"
    /\ (AtCache # {i} \/ LoadAtCache)
    /\ panicked' = TRUE
    /\ loops' = [loops EXCEPT ![i].pc = "panicked"]
    /\ UNCHANGED <<files, config, fileHashes, fileWatchers, events, errorChan,
                   chanClosed, onChangeLog, onErrorLog, errSeq, load, loads,
                   closeRet, closes, fileOps, watchErrs,
                   environ, scalars, seen, fwVars>>

\* The error value number n raised for field f.
WrappedErr(f, kind, n) == [field |-> f, kind |-> kind, n |-> n]

\* OnError, then the select that sends on errorChan; a send on a closed
\* channel is a run-time panic.
report(i, kind, nextPc) ==
    LET f == loops[i].field
        e == WrappedErr(f, kind, errSeq + 1)
    IN /\ errSeq' = errSeq + 1
       /\ onErrorLog' = [onErrorLog EXCEPT ![f] = Append(@, e)]
       /\ IF chanClosed
          THEN /\ panicked' = TRUE
               /\ loops' = [loops EXCEPT ![i].pc = "panicked"]
               /\ UNCHANGED errorChan
          ELSE /\ errorChan' = sendNonBlocking(errorChan, e)
               /\ loops' = [loops EXCEPT ![i] =
                      [@ EXCEPT !.pc = nextPc, !.changed = FALSE,
                                !.sameHash = FALSE, !.err = "", !.blob = "",
                                !.before = ZeroRecord]]
               /\ UNCHANGED panicked

\* loadFile failed: report and continue, the mutex still locked.
LoopFail(i) ==
    /\ ~panicked
    /\ loops[i].pc = "fail"
    /\ report(i, loops[i].err, "select")
    /\ UNCHANGED <<files, config, fileHashes, fileWatchers, events, chanClosed,
                   onChangeLog, load, loads, closeRet, closes, fileOps, watchErrs,
                   environ, scalars, seen, fwVars>>

\* loadFile succeeded: mutex.Unlock(); the goroutine goes on to OnChange
\* when callOnChange, back to its select otherwise.
LoopUnlockKeepsLock(i) ==
    /\ ~panicked
    /\ loops[i].pc = "unlock"
    /\ loops' = [loops EXCEPT ![i] =
           IF loops[i].changed
           THEN [@ EXCEPT !.pc = "onchange"]
           ELSE [@ EXCEPT !.pc = "select", !.held = FALSE, !.changed = FALSE,
                          !.sameHash = FALSE, !.err = "", !.blob = "",
                          !.before = ZeroRecord]]
    /\ UNCHANGED <<files, config, fileHashes, fileWatchers, events, errorChan,
                   chanClosed, onChangeLog, onErrorLog, errSeq, load, loads,
                   closeRet, closes, panicked, fileOps, watchErrs,
                   environ, scalars, seen, fwVars>>

LoopUnlock(i) ==
    /\ ~panicked
    /\ loops[i].pc = "unlock"
    /\ loops' = [loops EXCEPT ![i] =
           IF loops[i].changed
           THEN [@ EXCEPT !.pc = "onchange", !.held = FALSE]
           ELSE [@ EXCEPT !.pc = "select", !.held = FALSE, !.changed = FALSE,
                          !.sameHash = FALSE, !.err = "", !.blob = "",
                          !.before = ZeroRecord]]
    /\ UNCHANGED <<files, config, fileHashes, fileWatchers, events, errorChan,
                   chanClosed, onChangeLog, onErrorLog, errSeq, load, loads,
                   closeRet, closes, panicked, fileOps, watchErrs,
                   environ, scalars, seen, fwVars>>

\* callback.OnChange(), the mutex released.
LoopOnChange(i) ==
    /\ ~panicked
    /\ loops[i].pc = "onchange"
    /\ onChangeLog' = [onChangeLog EXCEPT ![loops[i].field] = Append(@, loops[i].blob)]
    /\ loops' = [loops EXCEPT ![i] =
           [@ EXCEPT !.pc = "select", !.changed = FALSE,
                     !.sameHash = FALSE, !.err = "", !.blob = "",
                     !.before = ZeroRecord]]
    /\ UNCHANGED <<files, config, fileHashes, fileWatchers, events, errorChan,
                   chanClosed, onErrorLog, errSeq, load, loads, closeRet,
                   closes, panicked, fileOps, watchErrs,
                   environ, scalars, seen, fwVars>>

\* case err := <-watcher.Errors, at most max times over the run.
LoopWatcherErr(i, max) ==
    /\ ~panicked
    /\ loops[i].pc = "select"
    /\ fileWatchers[LoopDir(i)].open
    /\ watchErrs < max
    /\ watchErrs' = watchErrs + 1
    /\ report(i, "watcher", "select")
    /\ UNCHANGED <<files, config, fileHashes, fileWatchers, events, chanClosed,
                   onChangeLog, load, loads, closeRet, closes, fileOps,
                   environ, scalars, seen, fwVars>>

(* ------------------------------------------------------ the outside world *)
\* The event fsnotify queues for an operation on p, when p's directory is watched.
Notify(p, op) ==
    LET d == Dir(p) IN
    IF fileWatchers[d].open
    THEN /\ Len(events[d]) < MaxQueue
         /\ events' = [events EXCEPT ![d] = Append(@, [op |-> op, name |-> p])]
    ELSE UNCHANGED events

\* os.WriteFile(p, c) by anybody (at most max file operations over the run).
WriteFile(p, c, max) ==
    /\ ~panicked
    /\ fileOps < max
    /\ fileOps' = fileOps + 1
    /\ files' = [files EXCEPT ![p] = c]
    /\ Notify(p, IF files[p] = Missing THEN "create" ELSE "write")
    /\ UNCHANGED <<config, fileHashes, fileWatchers, loops, errorChan,
                   chanClosed, onChangeLog, onErrorLog, errSeq, load, loads,
                   closeRet, closes, panicked, watchErrs,
                   environ, scalars, seen, fwVars>>

\* os.Remove(p) by anybody.
RemoveFile(p, max) ==
    /\ ~panicked
    /\ fileOps < max
    /\ files[p] # Missing
    /\ fileOps' = fileOps + 1
    /\ files' = [files EXCEPT ![p] = Missing]
    /\ Notify(p, "remove")
    /\ UNCHANGED <<config, fileHashes, fileWatchers, loops, errorChan,
                   chanClosed, onChangeLog, onErrorLog, errSeq, load, loads,
                   closeRet, closes, panicked, watchErrs,
                   environ, scalars, seen, fwVars>>

\* The caller receives from Errors().
ReadErr ==
    /\ ~panicked
    /\ errorChan # <<>>
    /\ errorChan' = Tail(errorChan)
    /\ UNCHANGED <<files, config, fileHashes, fileWatchers, events, loops,
                   chanClosed, onChangeLog, onErrorLog, errSeq, load, loads,
                   closeRet, closes, panicked, fileOps, watchErrs,
                   environ, scalars, seen, fwVars>>

\* The goroutines that are reloading field f: between mutex.Lock() and the
\* return of loadFile.
Reloading(f) ==
    {i \in DOMAIN loops : loops[i].field = f /\ loops[i].pc \in {"defaults", "read"}}

\* The caller's goroutine reads nested record f of its Config Record. The
\* mutex of a reload is a variable of the goroutine that created it, so the
\* caller has nothing to lock. Recorded beside the record read: whether a
\* reload was in progress, the record as that reload found it and the record
\* as that reload leaves it.
CallerRead(f) ==
    /\ ~panicked
    /\ load.ret = "nil"
    /\ seen' = IF Reloading(f) = {}
               THEN [field |-> f, rec |-> config[f], before |-> config[f],
                     after |-> config[f], reloading |-> FALSE]
               ELSE LET i == CHOOSE j \in Reloading(f) : TRUE
                        p == PathOf(f)
                    IN [field |-> f, rec |-> config[f],
                        before |-> loops[i].before,
                        after |-> loadFileRest(handleDefaults(loops[i].before),
                                               fileHashes, p, files[p]).rec,
                        reloading |-> TRUE]
    /\ UNCHANGED <<files, config, fileHashes, fileWatchers, events, loops,
                   errorChan, chanClosed, onChangeLog, onErrorLog, errSeq, load,
                   loads, closeRet, closes, panicked, fileOps, watchErrs,
                   environ, scalars, fwVars>>

(* ---------------------------------------------------------------- Close *)
\* Envi.Close: close(e.errorChan) panics on a closed channel; then every
\* Watch Entry is cancelled and closed, the failures collected.
Close(max) ==
    /\ ~panicked
    /\ closes < max
    /\ closes' = closes + 1
    /\ IF chanClosed
       THEN /\ panicked' = TRUE
            /\ closeRet' = [kind |-> "panic", errs |-> NoErrors]
            /\ UNCHANGED <<fileWatchers, events, chanClosed>>
       ELSE /\ chanClosed' = TRUE
            /\ \E failing \in SUBSET {d \in Dirs : fileWatchers[d].open} :
                 /\ fileWatchers' = closeAll(fileWatchers, failing)
                 /\ closeRet' = [kind |-> IF failing = {} THEN "nil" ELSE "CloseError",
                                 errs |-> closeErrors(fileWatchers, failing)]
                 /\ events' = [d \in Dirs |-> IF d \in failing THEN events[d] ELSE <<>>]
            /\ UNCHANGED panicked
    /\ UNCHANGED <<files, config, fileHashes, loops, errorChan, onChangeLog,
                   onErrorLog, errSeq, load, loads, fileOps, watchErrs,
                   environ, scalars, seen, fwVars>>

(* ------------------------------------- package filewatch: constructors *)
\* The variables of Envi and of the started FileWatcher, which the
\* constructors of package filewatch leave alone.
enviVars == <<files, config, fileHashes, fileWatchers, events, loops, errorChan,
              chanClosed, onChangeLog, onErrorLog, errSeq, load, loads, closeRet,
              closes, panicked, fileOps, watchErrs, environ, scalars, seen, call>>

\* The options a caller passes: WithPrefix(arg) and WithTriggerChannels(arg...).
Options ==
    {[opt |-> "WithPrefix", arg |-> a] : a \in {"", "PRE_", "X_"}}
    \cup {[opt |-> "WithTriggerChannels", arg |-> a] : a \in {<<>>, <<"t1">>}}

\* Sequences of at most n options.
OptionSeqs(n) == UNION {[1..k -> Options] : k \in 0..n}

\* The FileWatcher newWatcher builds before it applies the options.
NewFileWatcher(typ, loader, path) ==
    [watcherType |-> typ, Loader |-> loader, path |-> path, prefix |-> "",
     triggerChannels |-> <<>>]

\* The nil *FileWatcher.
NilFileWatcher == [nil |-> TRUE]

\* An Option applied to FileWatcher f: the error and the FileWatcher after it.
applyOption(o, f) ==
    IF o.opt = "WithPrefix"
    THEN IF o.arg = ""
         THEN [err |-> "ErrEmptyPrefix", fw |-> f]
         ELSE [err |-> "", fw |-> [f EXCEPT !.prefix = o.arg]]
    ELSE IF Len(o.arg) = 0
         THEN [err |-> "ErrNoTriggers", fw |-> f]
         ELSE [err |-> "", fw |-> [f EXCEPT !.triggerChannels = o.arg]]

\* The loop over the options in newWatcher, from option i on.
RECURSIVE applyOptions(_, _, _)
applyOptions(options, i, f) ==
    IF i > Len(options)
    THEN [fw |-> f, err |-> ""]
    ELSE LET r == applyOption(options[i], f)
         IN IF r.err # ""
            THEN [fw |-> NilFileWatcher, err |-> r.err]
            ELSE applyOptions(options, i + 1, r.fw)

\* newWatcher with the check of the loader before the check of the path.
newWatcherLoaderFirst(path, typ, loader, options) ==
    IF loader = "nil" THEN [fw |-> NilFileWatcher, err |-> "ErrLoaderNotSet"]
    ELSE IF path = "" THEN [fw |-> NilFileWatcher, err |-> "ErrNoPath"]
    ELSE applyOptions(options, 1, NewFileWatcher(typ, loader, path))

\* newWatcher: the FileWatcher and the error wrapped in the returned error.
newWatcher(path, typ, loader, options) ==
    IF path = "" THEN [fw |-> NilFileWatcher, err |-> "ErrNoPath"]
    ELSE IF loader = "nil" THEN [fw |-> NilFileWatcher, err |-> "ErrLoaderNotSet"]
    ELSE applyOptions(options, 1, NewFileWatcher(typ, loader, path))

\* The arguments of a call of NewJSONFileWatcher or NewYAMLFileWatcher.
InitNewW ==
    /\ files = [p \in Paths |-> "CA"]
    /\ environ = [v \in EnvVars |-> ""]
    /\ scalars = [f \in StringFields |-> IF f = "u" THEN "foo" ELSE ""]
    /\ startW = NotStarted
    /\ call = NoCall
    /\ InitNew
    /\ \E typ \in {"json", "yaml"}, path \in {"", "./secrets"},
          loader \in {"nil", "envi"}, options \in OptionSeqs(MaxOptions) :
          newW = [phase |-> "called", typ |-> typ, path |-> path,
                  loader |-> loader, options |-> options]

\* NewJSONFileWatcher / NewYAMLFileWatcher return what newWatcher returns.
NewWatcherReturns ==
    /\ newW.phase = "called"
    /\ LET r == newWatcher(newW.path, newW.typ, newW.loader, newW.options)
       IN newW' = [phase |-> "returned", typ |-> newW.typ, path |-> newW.path,
                   loader |-> newW.loader, options |-> newW.options,
                   fw |-> r.fw, err |-> r.err]
    /\ UNCHANGED <<enviVars, startW>>

NextNewW == NewWatcherReturns

SpecNewW == InitNewW /\ [][NextNewW]_vars

(* ---------------------------------- package filewatch: Start(config) *)
\* What a ConfigMap may hold: nothing, or the pairs of one version of the file.
MapContents == {"empty", "v1", "v2", "v3"}

\* make(chan struct{}, 1): the trigger channels of the tests.
TriggerCap == 1

\* The variables a started FileWatcher leaves alone.
otherVars == <<enviVars, newW>>

\* NewJSONFileWatcher / NewYAMLFileWatcher(path, prefix, triggerChannels...),
\* a Loader that has loaded version v1 of the file, and the ConfigMap the
\* caller is about to pass to Start.
InitStartW ==
    /\ files = [p \in Paths |-> "CA"]
    /\ environ = [v \in EnvVars |-> ""]
    /\ scalars = [f \in StringFields |-> IF f = "u" THEN "foo" ELSE ""]
    /\ newW = NotCalled
    /\ call = NoCall
    /\ InitNew
    /\ \E typ \in {"json", "yaml"}, prefix \in {"", "PRE_"},
          chans \in {<<>>, <<"t1">>, <<"t1", "t2">>}, m \in {"empty", "v1"} :
          startW = [phase |-> "new", watcherType |-> typ, prefix |-> prefix,
                    triggerChannels |-> chans,
                    callerMap |-> m,       \* the contents of the caller's map
                    loaderMap |-> "v1",    \* the Loader's current pairs
                    cbConfig |-> "none",   \* the map the callback's config refers to
                    cbMap |-> "empty",     \* the contents of that map
                    pc |-> 0,              \* the callback's position in its loop
                    pending |-> [t \in {"t1", "t2"} |-> 0],
                    receiving |-> [t \in {"t1", "t2"} |-> TRUE],
                    changes |-> 0]

\* Start(config): startWatcher hands callback(config, f.ToMap, triggers) to
\* the Loader's LoadAndWatch function for the type and the prefix; the
\* callback's variable config refers to the caller's map.
Start ==
    /\ startW.phase = "new"
    /\ \E loadErr \in BOOLEAN :
          startW' = IF loadErr
                    THEN [startW EXCEPT !.phase = "failed"]
                    ELSE [startW EXCEPT !.phase = "started",
                                        !.cbConfig = "caller",
                                        !.cbMap = startW.callerMap]
    /\ UNCHANGED otherVars

\* The Loader detects a change of the file, reloads it and invokes the
\* callback, whose first statement is config = toMap(): its variable now
\* refers to the map ToMap returned.
callback(m) ==
    /\ startW.phase = "started"
    /\ startW.pc = 0
    /\ startW.changes < MaxChanges
    /\ m # startW.loaderMap
    /\ startW' = [startW EXCEPT !.loaderMap = m,
                                !.cbConfig = "ToMap",
                                !.cbMap = m,
                                !.changes = @ + 1,
                                !.pc = IF Len(startW.triggerChannels) > 0 THEN 1 ELSE 0]
    /\ UNCHANGED otherVars

\* The callback's loop: triggerChannels[i] <- struct{}{}, which blocks while
\* the channel is full.
callbackSend ==
    /\ startW.pc \in 1..Len(startW.triggerChannels)
    /\ LET t == startW.triggerChannels[startW.pc] IN
       /\ startW.pending[t] < TriggerCap
       /\ startW' = [startW EXCEPT !.pending[t] = @ + 1,
                                   !.pc = IF startW.pc = Len(startW.triggerChannels)
                                          THEN 0 ELSE startW.pc + 1]
    /\ UNCHANGED otherVars

\* The application receives from a trigger channel.
TriggerReceive(t) ==
    /\ startW.phase \in {"started", "closed"}
    /\ startW.receiving[t]
    /\ startW.pending[t] > 0
    /\ startW' = [startW EXCEPT !.pending[t] = @ - 1]
    /\ UNCHANGED otherVars

\* The goroutine of the application that receives from trigger channel t
\* returns.
TriggerStop(t) ==
    /\ startW.phase = "started"
    /\ startW.receiving[t]
    /\ startW' = [startW EXCEPT !.receiving[t] = FALSE]
    /\ UNCHANGED otherVars

\* FileWatcher.Close: the closeFunc the Loader returned.
FileWatcherClose ==
    /\ startW.phase = "started"
    /\ startW.pc = 0
    /\ startW' = [startW EXCEPT !.phase = "closed"]
    /\ UNCHANGED otherVars

NextStartW ==
    \/ Start
    \/ \E m \in {"v1", "v2", "v3"} : callback(m)
    \/ callbackSend
    \/ \E t \in {"t1", "t2"} : TriggerReceive(t)
    \/ \E t \in {"t1", "t2"} : TriggerStop(t)
    \/ FileWatcherClose

SpecStartW == InitStartW /\ [][NextStartW]_vars

(* ------------------------------- handleDefaults and unmarshalText alone *)
\* The variables a call of a function on its own leaves alone.
restVars == <<files, config, fileHashes, fileWatchers, events, loops, errorChan,
              chanClosed, onChangeLog, onErrorLog, errSeq, load, loads, closeRet,
              closes, panicked, fileOps, watchErrs, environ, scalars, seen,
              newW, startW>>

\* The kinds of sub-field handleDefaults meets: the six of its switch and a
\* slice for its default case.
DefaultKinds == {"int32", "int64", "float32", "float64", "bool", "string", "slice"}

\* Default tags, character by character.
TagTexts ==
    {<<>>,
     <<"1", "2", "3">>,
     <<"-", "5">>,
     <<"2", "1", "4", "7", "4", "8", "3", "6", "4", "7">>,
     <<"2", "1", "4", "7", "4", "8", "3", "6", "4", "8">>,
     <<"-", "2", "1", "4", "7", "4", "8", "3", "6", "4", "8">>,
     <<"-", "2", "1", "4", "7", "4", "8", "3", "6", "4", "9">>,
     <<"4", "2", "9", "4", "9", "6", "7", "2", "9", "7">>,
     <<"9", "2", "2", "3", "3", "7", "2", "0", "3", "6", "8", "5", "4", "7", "7", "5", "8", "0", "7">>,
     <<"9", "2", "2", "3", "3", "7", "2", "0", "3", "6", "8", "5", "4", "7", "7", "5", "8", "0", "8">>,
     <<"1", "2", "a">>,
     <<"t", "r", "u", "e">>,
     <<"1">>,
     <<"0">>,
     <<"y", "e", "s">>,
     <<"1", ".", "5">>,
     <<"b", "a", "r">>}

Digits == {"0", "1", "2", "3", "4", "5", "6", "7", "8", "9"}
DigitOf(c) == CASE c = "1" -> 1 [] c = "2" -> 2 [] c = "3" -> 3 [] c = "4" -> 4 [] c = "5" -> 5 [] c = "6" -> 6 [] c = "7" -> 7 [] c = "8" -> 8 [] c = "9" -> 9 [] OTHER -> 0

\* A 64-bit integer is four 16-bit limbs, the least significant first (two's
\* complement); a 32-bit integer is two.
Zero64 == <<0, 0, 0, 0>>

\* l * 10 + d on four limbs, and whether the product leaves 64 bits.
MulAdd10(l, d) ==
    LET c1 == l[1] * 10 + d
        c2 == l[2] * 10 + (c1 \div 65536)
        c3 == l[3] * 10 + (c2 \div 65536)
        c4 == l[4] * 10 + (c3 \div 65536)
    IN [limbs |-> <<c1 % 65536, c2 % 65536, c3 % 65536, c4 % 65536>>,
        over |-> c4 \div 65536 > 0]

\* The number a sequence of decimal digits denotes, read from the left on
\* top of the number acc read so far.
RECURSIVE MagnitudeFrom(_, _)
MagnitudeFrom(ds, acc) ==
    IF ds = <<>>
    THEN acc
    ELSE MagnitudeFrom(Tail(ds),
             [limbs |-> MulAdd10(acc.limbs, DigitOf(Head(ds))).limbs,
              over |-> acc.over \/ MulAdd10(acc.limbs, DigitOf(Head(ds))).over])

Magnitude(ds) == MagnitudeFrom(ds, [limbs |-> Zero64, over |-> FALSE])

\* -l in two's complement.
Negate(l) ==
    LET n1 == (65535 - l[1]) + 1
        n2 == (65535 - l[2]) + (n1 \div 65536)
        n3 == (65535 - l[3]) + (n2 \div 65536)
        n4 == (65535 - l[4]) + (n3 \div 65536)
    IN <<n1 % 65536, n2 % 65536, n3 % 65536, n4 % 65536>>

\* strconv.ParseInt(text, 10, 64): an optional sign and decimal digits; a
\* value outside 64 bits is a range error.
ParseInt(text) ==
    LET signed == text # <<>> /\ text[1] \in {"-", "+"}
        neg == text # <<>> /\ text[1] = "-"
        ds == IF signed THEN Tail(text) ELSE text
        m == Magnitude(ds)
    IN IF ds = <<>> \/ \E i \in DOMAIN ds : ds[i] \notin Digits
       THEN [err |-> "syntax", val |-> Zero64]
       ELSE IF m.over \/ (m.limbs[4] >= 32768 /\ ~(neg /\ m.limbs = <<0, 0, 0, 32768>>))
       THEN [err |-> "range", val |-> Zero64]
       ELSE [err |-> "", val |-> IF neg THEN Negate(m.limbs) ELSE m.limbs]

\* strconv.ParseBool.
TrueTexts == {<<"1">>, <<"t">>, <<"T">>, <<"t", "r", "u", "e">>,
              <<"T", "R", "U", "E">>, <<"T", "r", "u", "e">>}
FalseTexts == {<<"0">>, <<"f">>, <<"F">>, <<"f", "a", "l", "s", "e">>,
               <<"F", "A", "L", "S", "E">>, <<"F", "a", "l", "s", "e">>}

\* strconv.ParseFloat(text, 64) accepts, among the texts above, the decimal
\* numerals: an optional sign, digits and at most one point.
IsDecimal(text) ==
    LET ds == IF text # <<>> /\ text[1] \in {"-", "+"} THEN Tail(text) ELSE text IN
    /\ \E i \in DOMAIN ds : ds[i] \in Digits
    /\ \A i \in DOMAIN ds : ds[i] \in Digits \cup {"."}
    /\ Cardinality({i \in DOMAIN ds : ds[i] = "."}) <= 1

\* The zero value of a sub-field of kind k.
ZeroVal(k) ==
    CASE k = "int32" -> [kind |-> k, v |-> <<0, 0>>]
      [] k = "int64" -> [kind |-> k, v |-> Zero64]
      [] k = "bool" -> [kind |-> k, v |-> <<"false">>]
      [] OTHER -> [kind |-> k, v |-> <<>>]

\* One iteration of handleDefaults: a sub-field of kind k, holding old, with
\* the default tag text. SetInt on an int32 keeps the low 32 bits.
applyDefault(k, text, old) ==
    IF text = <<>> THEN [val |-> old, err |-> ""]
    ELSE CASE k \in {"int32", "int64"} ->
              IF ParseInt(text).err # ""
              THEN [val |-> old, err |-> "ParsingError"]
              ELSE [val |-> [kind |-> k,
                             v |-> IF k = "int32"
                                   THEN SubSeq(ParseInt(text).val, 1, 2)
                                   ELSE ParseInt(text).val],
                    err |-> ""]
           [] k \in {"float32", "float64"} ->
              IF IsDecimal(text)
              THEN [val |-> [kind |-> k, v |-> <<"float">> \o text], err |-> ""]
              ELSE [val |-> old, err |-> "ParsingError"]
           [] k = "string" -> [val |-> [kind |-> k, v |-> text], err |-> ""]
           [] k = "bool" ->
              IF text \in TrueTexts \cup FalseTexts
              THEN [val |-> [kind |-> k,
                             v |-> IF text \in TrueTexts THEN <<"true">> ELSE <<"false">>],
                    err |-> ""]
              ELSE [val |-> old, err |-> "ParsingError"]
           [] OTHER -> [val |-> old, err |-> "InvalidKindError"]

\* handleDefaults is about to be called on a zeroed record with one sub-field.
InitDefaults ==
    /\ files = [p \in Paths |-> "CA"]
    /\ environ = [v \in EnvVars |-> ""]
    /\ scalars = [f \in StringFields |-> IF f = "u" THEN "foo" ELSE ""]
    /\ newW = NotCalled
    /\ startW = NotStarted
    /\ InitNew
    /\ \E k \in DefaultKinds, text \in TagTexts :
          call = [fn |-> "handleDefaults", kind |-> k, tag |-> text,
                  done |-> FALSE, val |-> ZeroVal(k), err |-> ""]

\* handleDefaults returns.
HandleDefaultsReturns ==
    /\ call.fn = "handleDefaults"
    /\ ~call.done
    /\ call' = [call EXCEPT !.done = TRUE,
                            !.val = applyDefault(call.kind, call.tag, call.val).val,
                            !.err = applyDefault(call.kind, call.tag, call.val).err]
    /\ UNCHANGED restVars

NextDefaults == HandleDefaultsReturns

SpecDefaults == InitDefaults /\ [][NextDefaults]_vars

\* The nested-record types loaded as text, as the sequence of their
\* sub-fields with kind and default tag.
TextTypes ==
    {<<[kind |-> "string", tag |-> <<"b">>], [kind |-> "string", tag |-> <<"c">>]>>,
     <<[kind |-> "string", tag |-> <<>>]>>,
     <<[kind |-> "int32", tag |-> <<"7">>], [kind |-> "string", tag |-> <<"b">>]>>,
     <<[kind |-> "int32", tag |-> <<"7">>]>>}

\* The contents of a text file: at most MaxText characters, letters and
\* newlines.
MaxText == 3
TextData == UNION {[1..n -> {"a", "\n"}] : n \in 0..MaxText}

\* strings.TrimRight(s, "\n") and strings.TrimLeft(s, "\n").
RECURSIVE TrimRight(_)
TrimRight(data) ==
    IF data # <<>> /\ data[Len(data)] = "\n"
    THEN TrimRight(SubSeq(data, 1, Len(data) - 1))
    ELSE data

RECURSIVE TrimLeft(_)
TrimLeft(data) ==
    IF data # <<>> /\ data[1] = "\n" THEN TrimLeft(Tail(data)) ELSE data

\* strings.Trim(s, "\n"): the newlines at both ends are removed.
Trim(data) == TrimLeft(TrimRight(data))

\* handleDefaults on a zeroed record of type typ.
defaultsOf(typ) ==
    [i \in DOMAIN typ |-> applyDefault(typ[i].kind, typ[i].tag, ZeroVal(typ[i].kind)).val]

\* The index of the first sub-field of kind string, 0 without one.
FirstString(typ) ==
    LET is == {i \in DOMAIN typ : typ[i].kind = "string"}
    IN IF is = {} THEN 0 ELSE CHOOSE i \in is : \A j \in is : i <= j

\* unmarshalText(data, rec): the first sub-field of kind string is set to the
\* trimmed content; an error when there is none.
unmarshalText(data, typ, rec) ==
    IF FirstString(typ) = 0
    THEN [rec |-> rec, err |-> "no target"]
    ELSE [rec |-> [rec EXCEPT ![FirstString(typ)] =
                       [kind |-> "string", v |-> Trim(data)]],
          err |-> ""]

\* loadFile is about to be called for a nested record of type "text".
InitText ==
    /\ files = [p \in Paths |-> "CA"]
    /\ environ = [v \in EnvVars |-> ""]
    /\ scalars = [f \in StringFields |-> IF f = "u" THEN "foo" ELSE ""]
    /\ newW = NotCalled
    /\ startW = NotStarted
    /\ InitNew
    /\ \E typ \in TextTypes, data \in TextData :
          call = [fn |-> "text", typ |-> typ, data |-> data, done |-> FALSE,
                  rec |-> [i \in DOMAIN typ |-> ZeroVal(typ[i].kind)], err |-> ""]

\* loadFile with unmarshalText returns: handleDefaults, then unmarshalText on
\* the content read.
LoadTextReturns ==
    /\ call.fn = "text"
    /\ ~call.done
    /\ call' = [call EXCEPT
           !.done = TRUE,
           !.rec = unmarshalText(call.data, call.typ, defaultsOf(call.typ)).rec,
           !.err = unmarshalText(call.data, call.typ, defaultsOf(call.typ)).err]
    /\ UNCHANGED restVars

NextText == LoadTextReturns

SpecText == InitText /\ [][NextText]_vars

(* -------------------------------------------------------- specifications *)
\* The steps of the fileWatcher goroutines other than a watcher error.
LoopStep ==
    \/ \E i \in DOMAIN loops : LoopStart(i)
    \/ \E i \in DOMAIN loops : LoopCtxDone(i)
    \/ \E i \in DOMAIN loops : LoopChanClosed(i)
    \/ \E i \in DOMAIN loops : LoopEvent(i)
    \/ \E i \in DOMAIN loops : LoopDefaults(i)
    \/ \E i \in DOMAIN loops : LoopRead(i)
    \/ \E i \in DOMAIN loops : LoopFail(i)
    \/ \E i \in DOMAIN loops : LoopUnlock(i)
    \/ \E i \in DOMAIN loops : LoopOnChange(i)

\* Everything: Load of a two-field record (files in one directory or in two),
\* any file operation, watcher errors, readers of Errors() and Close.
Next ==
    \/ \E c \in Configs : LoadStart(c, MaxLoads)
    \/ LoadField
    \/ LoadValidate
    \/ LoopStep
    \/ \E i \in DOMAIN loops : LoopCacheRace(i)
    \/ \E i \in DOMAIN loops : LoopWatcherErr(i, MaxWatchErrs)
    \/ \E p \in Paths, c \in Contents : WriteFile(p, c, MaxFileOps)
    \/ \E p \in Paths : RemoveFile(p, MaxFileOps)
    \/ ReadErr
    \/ Close(MaxCloses)

Spec == Init /\ [][Next]_vars

\* One watched field: Load of a one-field record, any operation on its file,
\* watcher errors, readers of Errors() and Close.
NextOne ==
    \/ LoadStart(CfgC, MaxLoads)
    \/ LoadField
    \/ LoadValidate
    \/ LoopStep
    \/ \E i \in DOMAIN loops : LoopWatcherErr(i, MaxWatchErrs)
    \/ \E c \in Contents : WriteFile(PathOf("C"), c, MaxFileOps)
    \/ RemoveFile(PathOf("C"), MaxFileOps)
    \/ ReadErr
    \/ Close(MaxCloses)

SpecOne == Init /\ [][NextOne]_vars

\* One watched field whose file is written or removed after Load returned
\* nil; no Close and no watcher error.
NextC ==
    \/ LoadStart(CfgC, MaxLoads)
    \/ LoadField
    \/ LoadValidate
    \/ \E i \in DOMAIN loops : LoopStart(i)
    \/ \E i \in DOMAIN loops : LoopEvent(i)
    \/ \E i \in DOMAIN loops : LoopDefaults(i)
    \/ \E i \in DOMAIN loops : LoopRead(i)
    \/ \E i \in DOMAIN loops : LoopFail(i)
    \/ \E i \in DOMAIN loops : LoopUnlock(i)
    \/ \E i \in DOMAIN loops : LoopOnChange(i)
    \/ load.ret = "nil" /\ \E c \in {"CB", "CC", "CE", "BAD"} : WriteFile(PathOf("C"), c, MaxFileOps)
    \/ load.ret = "nil" /\ RemoveFile(PathOf("C"), MaxFileOps)
    \/ ReadErr

SpecC == Init /\ [][NextC]_vars

\* One watched field whose file is written after Load returned nil, and the
\* caller reading the field's record at any moment from then on.
NextRace ==
    \/ LoadStart(CfgC, MaxLoads)
    \/ LoadField
    \/ LoadValidate
    \/ \E i \in DOMAIN loops : LoopStart(i)
    \/ \E i \in DOMAIN loops : LoopEvent(i)
    \/ \E i \in DOMAIN loops : LoopDefaults(i)
    \/ \E i \in DOMAIN loops : LoopRead(i)
    \/ \E i \in DOMAIN loops : LoopUnlock(i)
    \/ \E i \in DOMAIN loops : LoopOnChange(i)
    \/ load.ret = "nil" /\ \E c \in {"CB", "CC"} : WriteFile(PathOf("C"), c, MaxFileOps)
    \/ CallerRead("C")

SpecRace == Init /\ [][NextRace]_vars

\* Two watched fields with files a and b in one directory; after Load
\* returned nil only a is written, with new content that decodes.
NextAB ==
    \/ LoadStart(CfgAB, MaxLoads)
    \/ LoadField
    \/ LoadValidate
    \/ \E i \in DOMAIN loops : LoopStart(i)
    \/ \E i \in DOMAIN loops : LoopEvent(i)
    \/ \E i \in DOMAIN loops : LoopDefaults(i)
    \/ \E i \in DOMAIN loops : LoopRead(i)
    \/ \E i \in DOMAIN loops : LoopUnlock(i)
    \/ \E i \in DOMAIN loops : LoopOnChange(i)
    \/ load.ret = "nil" /\ \E c \in {"CB", "CC"} : WriteFile(PathOf("A"), c, MaxFileOps)

SpecAB == Init /\ [][NextAB]_vars

\* Load and Close alone: records with one or two watched directories, the
\* goroutines starting and ending.
NextClose ==
    \/ \E c \in {CfgAB, CfgAC, CfgC} : LoadStart(c, MaxLoads)
    \/ LoadField
    \/ LoadValidate
    \/ \E i \in DOMAIN loops : LoopStart(i)
    \/ \E i \in DOMAIN loops : LoopCtxDone(i)
    \/ \E i \in DOMAIN loops : LoopChanClosed(i)
    \/ Close(MaxCloses)

SpecClose == Init /\ [][NextClose]_vars

\* One watched field and enough watcher errors to fill the error channel; the
\* file is written once the channel is full or one short of it.
NextChan ==
    \/ LoadStart(CfgC, MaxLoads)
    \/ LoadField
    \/ LoadValidate
    \/ \E i \in DOMAIN loops : LoopStart(i)
    \/ \E i \in DOMAIN loops : LoopEvent(i)
    \/ \E i \in DOMAIN loops : LoopDefaults(i)
    \/ \E i \in DOMAIN loops : LoopRead(i)
    \/ \E i \in DOMAIN loops : LoopFail(i)
    \/ \E i \in DOMAIN loops : LoopUnlock(i)
    \/ \E i \in DOMAIN loops : LoopOnChange(i)
    \/ \E i \in DOMAIN loops : LoopWatcherErr(i, MaxChanErrs)
    \/ /\ load.ret = "nil"
       /\ Len(errorChan) >= ErrChanCap - 1
       /\ \E c \in {"CB", "BAD"} : WriteFile(PathOf("C"), c, MaxFileOps)

SpecChan == Init /\ [][NextChan]_vars

\* Population and validation: Load, up to twice, of root records with
\* strings, unexported fields and nested records that are not reloaded.
LoadConfigs == {CfgRoot, CfgPtr, CfgMutex, CfgW, CfgNoTag, CfgInt,
                CfgBadType, CfgIntNoTag, CfgIntFirst}

NextLoad ==
    \/ \E c \in LoadConfigs : LoadStart(c, MaxLoadCalls)
    \/ LoadField
    \/ LoadValidate
    \/ \E i \in DOMAIN loops : LoopStart(i)

SpecLoad == InitLoad /\ [][NextLoad]_vars

\* Load called twice with the same one-field record, the file written in
\* between and afterwards, and Close at any moment.
NextTwice ==
    \/ LoadStart(CfgC, MaxLoadCalls)
    \/ LoadField
    \/ LoadValidate
    \/ \E i \in DOMAIN loops : LoopStart(i)
    \/ \E i \in DOMAIN loops : LoopChanClosed(i)
    \/ \E i \in DOMAIN loops : LoopEvent(i)
    \/ \E i \in DOMAIN loops : LoopDefaults(i)
    \/ \E i \in DOMAIN loops : LoopRead(i)
    \/ \E i \in DOMAIN loops : LoopCacheRace(i)
    \/ \E i \in DOMAIN loops : LoopUnlock(i)
    \/ \E i \in DOMAIN loops : LoopOnChange(i)
    \/ load.ret = "nil" /\ \E c \in {"CB", "CC"} : WriteFile(PathOf("C"), c, MaxFileOps)
    \/ Close(MaxCloses)

SpecTwice == Init /\ [][NextTwice]_vars

\* Load of root records with a pointer field, nil or not.
NextPtr ==
    \/ \E c \in {CfgPtr, CfgNilPtr, CfgNilStr} : LoadStart(c, MaxLoadCalls)
    \/ LoadField
    \/ LoadValidate

SpecPtr == InitLoad /\ [][NextPtr]_vars

\* Two watched fields with files a and b in one directory; after Load
\* returned nil a is written and removed.
NextFilter ==
    \/ LoadStart(CfgAB, MaxLoads)
    \/ LoadField
    \/ LoadValidate
    \/ \E i \in DOMAIN loops : LoopStart(i)
    \/ \E i \in DOMAIN loops : LoopEvent(i)
    \/ \E i \in DOMAIN loops : LoopDefaults(i)
    \/ \E i \in DOMAIN loops : LoopRead(i)
    \/ \E i \in DOMAIN loops : LoopFail(i)
    \/ \E i \in DOMAIN loops : LoopUnlock(i)
    \/ \E i \in DOMAIN loops : LoopOnChange(i)
    \/ load.ret = "nil" /\ \E c \in {"CB", "CC"} : WriteFile(PathOf("A"), c, MaxFileOps)
    \/ load.ret = "nil" /\ RemoveFile(PathOf("A"), MaxFileOps)

SpecFilter == Init /\ [][NextFilter]_vars

(* --------------------------------------------------------------- claims *)
\* Nothing is in progress: Load is not running, no event is pending and every
\* goroutine waits in its select, has returned or is stuck.
Quiescent ==
    /\ load.idx = 0
    /\ \A d \in Dirs : events[d] = <<>>
    /\ \A i \in DOMAIN loops : loops[i].pc \in {"select", "done", "blocked"}

\* The number of OnChange calls of field f made for content c.
OnChangeCount(f, c) ==
    Cardinality({j \in DOMAIN onChangeLog[f] : onChangeLog[f][j] = c})

\* C1: after a failed reload the field's loop keeps running and processes the
\* next create/write event: no goroutine is ever stuck for good in
\* mutex.Lock() on the mutex it still holds itself.
C1_LoopSurvivesFailedReload ==
    \A i \in DOMAIN loops : loops[i].pc # "blocked"

\* C2: a second Close on the same Envi, and a Close on an Envi without any
\* Watch Entry, does not panic and returns nil.
C2_CloseTwiceOrUnwatched ==
    (closes >= 2 \/ (closes = 1 /\ \A d \in Dirs : ~fileWatchers[d].exists))
        => closeRet.kind = "nil"

\* C3: fields A and B watch files a and b of one directory; once a alone has
\* been written with new content and everything has settled, A's OnChange has
\* been invoked and neither callback of B has.
C3_OnlyAChanged ==
    (Quiescent /\ load.ret = "nil" /\ fileOps >= 1)
        => /\ onChangeLog["A"] # <<>>
           /\ onChangeLog["B"] = <<>>
           /\ onErrorLog["B"] = <<>>

\* C4: when everything has settled and the watched file holds content that
\* decodes and differs from what Load loaded, OnChange has been invoked for
\* that content exactly once.
C4_OnChangeOncePerContent ==
    (Quiescent /\ files[PathOf("C")] = "CB") => OnChangeCount("C", "CB") = 1

\* C5: a reload that reads content whose hash equals the cache entry of the
\* path invokes neither OnChange nor OnError and sends nothing on the error
\* channel: the goroutine goes back to its select with the logs as they were.
C5_SameHashNoCallback ==
    [][\A i \in DOMAIN loops :
          (loops[i].sameHash /\ loops'[i].pc # loops[i].pc)
              => /\ loops'[i].pc = "select"
                 /\ onChangeLog' = onChangeLog
                 /\ onErrorLog' = onErrorLog
                 /\ errorChan' = errorChan]_vars

\* C5 witness: a reload has just read content equal to the cached hash.
C5_Witness ==
    \E i \in DOMAIN loops : loops[i].sameHash /\ loops[i].pc = "unlock"

\* C6: once a watched file has been removed and everything has settled, an
\* error has been reported through OnError and the loop is alive in its select.
C6_RemoveReportsError ==
    (Quiescent /\ files[PathOf("C")] = Missing)
        => /\ onErrorLog["C"] # <<>>
           /\ \A i \in DOMAIN loops : loops[i].pc = "select"

\* Goroutine i has a step to take, given that its context is cancelled.
LoopCanStep(i) ==
    \/ loops[i].pc \in {"start", "defaults", "read", "fail", "unlock", "onchange"}
    \/ /\ loops[i].pc = "select"
       /\ \/ fileWatchers[LoopDir(i)].cancelled
          \/ ~fileWatchers[LoopDir(i)].open
          \/ events[LoopDir(i)] # <<>>

\* C7: after Close every goroutine of a cancelled Watch Entry terminates: it
\* has returned or it still has a step to take (or the process is gone).
C7_LoopsEndAfterClose ==
    \A i \in DOMAIN loops :
        (closes >= 1 /\ fileWatchers[LoopDir(i)].cancelled)
            => (panicked \/ loops[i].pc = "done" \/ LoopCanStep(i))

C9_FailureReported ==
    [][\A i \in DOMAIN loops :
          (loops[i].pc = "fail" /\ loops'[i].pc # "fail")
              => /\ loops'[i].pc = "select"
                 /\ Len(onErrorLog'[loops[i].field]) = Len(onErrorLog[loops[i].field]) + 1
                 /\ errorChan' \in {errorChan, Append(errorChan, WrappedErr(loops[i].field, loops[i].err, errSeq'))}
                 /\ Len(errorChan) < ErrChanCap => errorChan' # errorChan]_vars

\* C10 as stated: with the channel full, a further error displaces the oldest
\* pending error, so that the channel then ends with the newest error.
C10_OldestDiscarded ==
    (Len(errorChan) = ErrChanCap /\ errSeq > ErrChanCap)
        => /\ errorChan[ErrChanCap].n = errSeq
           /\ errorChan[1].n > 1

\* C10 as amended: with the channel full, a further error leaves the channel
\* as it was; the new error is the one that is discarded.
C10_NewestDiscarded ==
    [][(Len(errorChan) = ErrChanCap /\ errSeq' = errSeq + 1)
          => errorChan' = errorChan]_vars

\* C10 witness: a reload failed while the channel was full.
C10_Witness ==
    /\ Len(errorChan) = ErrChanCap
    /\ errSeq > ErrChanCap
    /\ onErrorLog["C"] # <<>>
    /\ onErrorLog["C"][Len(onErrorLog["C"])].n = errSeq
    /\ onErrorLog["C"][Len(onErrorLog["C"])].kind \in {"read", "unmarshal"}

\* What the tags of root field f call for: the value of the variable named by
\* the env tag when it is set and not empty, the default tag otherwise.
EnvOrDefault(f) ==
    IF EnvTag(f) \in EnvVars /\ environ[EnvTag(f)] # ""
    THEN environ[EnvTag(f)]
    ELSE FieldDefault(f)

\* This step is loadConfig's iteration for nested-record field f and it did
\* not fail.
LoadedField(f) ==
    /\ load.idx \in 1..Len(load.cfg)
    /\ load.cfg[load.idx] = f
    /\ load' # load
    /\ load'.ret # "error"

\* C11: after a successful Load every exported string field holds the value
\* of its environment variable when that is set and not empty and its default
\* otherwise, whatever it held before; and the file read for a nested record
\* is the one at the environment value when set and not empty, at the
\* default otherwise (the hash of that file, and of no other, is recorded).
C11_EnvOverridesDefault ==
    /\ [](load.ret = "nil" => \A f \in Scalars : scalars[f] = EnvOrDefault(f))
    /\ [][\A f \in Fields : LoadedField(f) =>
              /\ fileHashes'[EnvOrDefault(f)] = Hash(files[EnvOrDefault(f)])
              /\ \A p \in Paths \ {EnvOrDefault(f)} : fileHashes'[p] = fileHashes[p]]_vars

\* C11 witness: Load returned nil with the environment overriding the default
\* of a string and the default path of a nested record.
C11_Witness ==
    /\ load.ret = "nil"
    /\ environ["E2"] = "my-service" /\ scalars["S3"] = "my-service"
    /\ environ["EP"] = "d1/a"
    /\ fileHashes["d1/a"] = Hash("CB") /\ fileHashes["d2/c"] = NoHash

\* C12: when Load has loaded a nested record from its file, each sub-field
\* whose key is in the file holds the file's value and each other sub-field
\* with a default tag holds its default.
C12_FileOverDefaults ==
    [][\A f \in Fields : LoadedField(f) =>
          \A k \in Keys :
              IF k \in DOMAIN Decode(files[EnvOrDefault(f)])
              THEN config'[f][k] = Decode(files[EnvOrDefault(f)])[k]
              ELSE DefaultTag(k) # "" => config'[f][k] = DefaultTag(k)]_vars

\* The fields tagged required:"true" that hold their zero value, over the
\* root record cfg and all its nested records.
RequiredAndZero(cfg) ==
    {fk \in {<<cfg[i], k>> : i \in DOMAIN cfg, k \in Keys} :
        fk[1] \in Fields /\ RequiredTag(fk[2]) = "true" /\ config[fk[1]][fk[2]] = ""}
    \cup
    {fk \in {<<cfg[i], "">> : i \in DOMAIN cfg} :
        fk[1] \in StringFields /\ FieldRequired(fk[1]) = "true" /\ scalars[fk[1]] = ""}

\* C13: once population has succeeded, a Load that returns returns a
\* ValidationError naming exactly the required fields that hold their zero
\* value, in the root record and in every nested record, and no validation
\* error when there is none.
C13_ValidationIsExact ==
    [][(load.idx = Len(load.cfg) + 1 /\ load.idx > 1 /\ load'.idx = 0
            /\ load'.ret # "panic")
          => /\ load'.errs = RequiredAndZero(load.cfg)
             /\ load'.ret = IF RequiredAndZero(load.cfg) = {} THEN "nil" ELSE "validation"]_vars

\* C14: an unexported field of the root record is never modified and never
\* makes Load panic, in population and in validation alike.
C14_UnexportedSkipped ==
    /\ scalars["u"] = "foo"
    /\ load.ret # "panic"

\* C15: no Watch Entry exists for a directory unless a watched field of a
\* type with the FileWatcher capability has its file there.
C15_NoEntryWithoutCapability ==
    \A d \in Dirs : fileWatchers[d].exists =>
        \E i \in DOMAIN loops : LoopDir(i) = d /\ loops[i].field \in FileWatcherTypes

\* The first option of the call that fails, 0 when none does.
FirstFailing ==
    LET bad == {i \in DOMAIN newW.options :
                   IF newW.options[i].opt = "WithPrefix"
                   THEN newW.options[i].arg = ""
                   ELSE Len(newW.options[i].arg) = 0}
    IN IF bad = {} THEN 0 ELSE CHOOSE i \in bad : \A j \in bad : i <= j

\* The argument of the last option named opt of the call, dflt without one.
LastArg(opt, dflt) ==
    LET is == {i \in DOMAIN newW.options : newW.options[i].opt = opt}
    IN IF is = {} THEN dflt
       ELSE newW.options[CHOOSE i \in is : \A j \in is : j <= i].arg

\* C17: the constructors return no watcher and ErrNoPath for an empty path
\* (whatever the loader), ErrLoaderNotSet for a nil loader, and the error of
\* the first failing option (ErrEmptyPrefix for WithPrefix(""), ErrNoTriggers
\* for WithTriggerChannels()); otherwise a watcher with the options applied
\* in argument order.
C17_ConstructorErrors ==
    newW.phase = "returned" =>
        IF newW.path = "" THEN newW.fw = NilFileWatcher /\ newW.err = "ErrNoPath"
        ELSE IF newW.loader = "nil" THEN newW.fw = NilFileWatcher /\ newW.err = "ErrLoaderNotSet"
        ELSE IF FirstFailing # 0
        THEN /\ newW.fw = NilFileWatcher
             /\ newW.err = IF newW.options[FirstFailing].opt = "WithPrefix"
                            THEN "ErrEmptyPrefix" ELSE "ErrNoTriggers"
        ELSE /\ newW.err = ""
             /\ newW.fw # NilFileWatcher
             /\ newW.fw.prefix = LastArg("WithPrefix", "")
             /\ newW.fw.triggerChannels = LastArg("WithTriggerChannels", <<>>)
             /\ newW.fw.path = newW.path /\ newW.fw.Loader = newW.loader

\* C17 witness: a constructor called with an empty path and a nil loader has
\* returned ErrNoPath.
C17_Witness ==
    /\ newW.phase = "returned"
    /\ newW.path = "" /\ newW.loader = "nil"
    /\ newW.err = "ErrNoPath"

\* C16: once a started FileWatcher has detected a change of the file and its
\* callback has run, the ConfigMap the caller passed to Start holds the
\* Loader's current pairs.
C16_CallerMapUpdated ==
    (startW.phase = "started" /\ startW.changes >= 1 /\ startW.pc = 0)
        => startW.callerMap = startW.loaderMap

\* C18: a create/write event processed while the file's content hash equals
\* the cached hash leaves every sub-field of the live record as it was when
\* the event was taken up, the sub-fields with a default tag included.
C18_SameHashKeepsRecord ==
    \A i \in DOMAIN loops :
        (loops[i].pc = "unlock" /\ loops[i].sameHash)
            => config[loops[i].field] = loops[i].before

\* C19: every entry of the Content Hash Cache is the hash of content that
\* was unmarshalled successfully.
C19_HashOnlyOfLoadedContent ==
    \A p \in Paths :
        fileHashes[p] # NoHash => \E c \in ValidContents : fileHashes[p] = Hash(c)

\* C20: a read of a watched nested record on the caller's goroutine while a
\* reload of that record holds the mutex does not see the record partially
\* updated: it sees the record as the reload found it or as the reload
\* leaves it.
C20_NoPartialRead ==
    seen.reloading => seen.rec \in {seen.before, seen.after}

\* C21: the reloads of one field's live record are processed one at a time:
\* never are two goroutines between mutex.Lock() and the return of loadFile
\* for the same field.
C21_OneReloadAtATime ==
    \A f \in Fields : Cardinality(Reloading(f)) <= 1

\* C22: a reload that fails once Close has closed the error channel invokes
\* OnError, sends nothing on the channel and does not panic.
C22_FailedReloadAfterClose ==
    [][\A i \in DOMAIN loops :
          (chanClosed /\ loops[i].pc = "fail" /\ loops'[i] # loops[i])
              => /\ ~panicked'
                 /\ Len(onErrorLog'[loops[i].field]) = Len(onErrorLog[loops[i].field]) + 1
                 /\ errorChan' = errorChan]_vars

\* C23: no reload task is at the Content Hash Cache (e.fileHashes) at the
\* moment a reload task of another field, or a running Load, is there too.
C23_NoConcurrentCacheAccess ==
    /\ \A i, j \in AtCache : loops[i].field # loops[j].field => i = j
    /\ AtCache # {} => ~LoadAtCache

\* C24: an existing Watch Entry is never replaced (only Close touches it),
\* so each directory has one handle and one context however many fields and
\* Load calls share it; and one reload loop is started per watched field.
C24_OneEntryOneLoop ==
    [][/\ \A d \in Dirs :
            (fileWatchers[d].exists /\ fileWatchers'[d] # fileWatchers[d])
                => closes' = closes + 1
       /\ \A f \in Fields :
            Cardinality({i \in DOMAIN loops' : loops'[i].field = f}) <= 1]_vars

\* C25: when Load returns nil, every nested-record field of the record it was
\* given holds the value of each key of its file, whether the cache held the
\* hash of that content already or not.
C25_LoadAlwaysUnmarshals ==
    [][(load.idx = Len(load.cfg) + 1 /\ load.idx > 1 /\ load'.ret = "nil")
          => \A n \in DOMAIN load.cfg :
                load.cfg[n] \in Fields =>
                    \A k \in DOMAIN Decode(files[EnvOrDefault(load.cfg[n])]) :
                        config'[load.cfg[n]][k]
                            = Decode(files[EnvOrDefault(load.cfg[n])])[k]]_vars

\* C26: when a reload has failed, every sub-field of the live record is what
\* it was when the event was taken up.
C26_FailedReloadKeepsRecord ==
    \A i \in DOMAIN loops :
        loops[i].pc = "fail" => config[loops[i].field] = loops[i].before

\* C27: after a successful reload of content c the live record is what a
\* Load of c into a zeroed record gives, whatever the file held before.
C27_ReloadEqualsFreshLoad ==
    \A i \in DOMAIN loops :
        loops[i].pc = "onchange"
            => config[loops[i].field]
                   = unmarshal(loops[i].blob, handleDefaults(ZeroRecord))

\* This step is loadConfig's iteration for the exported field f.
LoadFieldStep(f) ==
    /\ load.idx \in 1..Len(load.cfg)
    /\ load.cfg[load.idx] = f
    /\ Exported(f)
    /\ load' # load

\* Load returns the structural error e at this step and has touched nothing.
AbortedWith(e) ==
    /\ load' = [cfg |-> <<>>, idx |-> 0, ret |-> "error", errs |-> {}, err |-> e]
    /\ UNCHANGED <<config, scalars, fileHashes, fileWatchers, loops>>

C29_OnChangeAfterUnlock ==
    [][/\ \A f \in Fields : onChangeLog'[f] # onChangeLog[f] =>
              \E i \in DOMAIN loops :
                  /\ loops[i].field = f
                  /\ loops[i].pc = "onchange"
                  /\ ~loops[i].held
                  /\ loops[i].changed /\ ~loops[i].sameHash /\ loops[i].err = ""
                  /\ loops[i].blob \in ValidContents
                  /\ onChangeLog'[f] = Append(onChangeLog[f], loops[i].blob)
                  /\ onErrorLog' = onErrorLog
                  /\ errorChan' = errorChan
                  /\ loops'[i].pc = "select"
       /\ \A i \in DOMAIN loops :
              (/\ loops'[i] # loops[i]
               /\ onErrorLog'[loops[i].field] # onErrorLog[loops[i].field])
                  => /\ onChangeLog' = onChangeLog
                     /\ loops'[i].pc \in {"select", "panicked"}]_vars

\* C29 witness: OnChange has been invoked for one event and OnError for a
\* later one.
C29_Witness ==
    /\ Len(onChangeLog["C"]) = 1
    /\ Len(onErrorLog["C"]) = 1

\* C30: when a goroutine takes an event off watcher.Events, a goroutine of
\* the directory whose field's file the event does not name, or any goroutine
\* when the event is neither create nor write, stays where it is; the field's
\* record, the hash cache and the field's callback logs are unchanged.
C30_OtherEventsIgnored ==
    [][\A d \in Dirs :
          (events[d] # <<>> /\ events'[d] = Tail(events[d]) /\ closes' = closes)
              => \A i \in DOMAIN loops :
                    (/\ LoopDir(i) = d
                     /\ \/ Base(Head(events[d]).name) # Base(PathOf(loops[i].field))
                        \/ Head(events[d]).op \notin {"create", "write"})
                        => /\ loops'[i] = loops[i]
                           /\ config'[loops[i].field] = config[loops[i].field]
                           /\ fileHashes' = fileHashes
                           /\ onChangeLog'[loops[i].field] = onChangeLog[loops[i].field]
                           /\ onErrorLog'[loops[i].field] = onErrorLog[loops[i].field]]_vars

\* C30 witness: a was written and then removed; the write event was taken by
\* B's goroutine and the remove event by either: nothing was reloaded and no
\* callback invoked.
C30_Witness ==
    /\ fileOps = 2
    /\ files["d1/a"] = Missing
    /\ events["d1"] = <<>>
    /\ Len(loops) = 2
    /\ \A i \in DOMAIN loops : loops[i].pc = "select" /\ ~loops[i].held
    /\ fileHashes["d1/a"] = Hash("CA")
    /\ \A f \in Fields : onChangeLog[f] = <<>> /\ onErrorLog[f] = <<>>

\* C31: once Load has returned an error (from loadConfig or from validation)
\* nothing changes a nested record asynchronously and no callback is invoked.
C31_NoReloadAfterFailedLoad ==
    [][(load.idx = 0 /\ load.ret \in {"error", "validation"})
          => /\ config' = config
             /\ onChangeLog' = onChangeLog
             /\ onErrorLog' = onErrorLog]_vars

\* C32: a Close that returns leaves no Watch Entry and no cached hash, so
\* that an iteration of a later Load for a watched nested record unmarshals
\* the file and leaves an open handle with a context that is not cancelled.
C32_CloseReleases ==
    [][/\ (closes' = closes + 1 /\ ~panicked')
            => /\ \A d \in Dirs : fileWatchers'[d] = NoWatcher
               /\ \A p \in Paths : fileHashes'[p] = NoHash
       /\ \A f \in FileWatcherTypes :
            (chanClosed /\ LoadedField(f) /\ files[PathOf(f)] \in ValidContents)
                => /\ config'[f] = unmarshal(files[PathOf(f)], handleDefaults(config[f]))
                   /\ fileWatchers'[Dir(PathOf(f))].open
                   /\ ~fileWatchers'[Dir(PathOf(f))].cancelled]_vars

\* C33: every Watch Entry holds an open handle until Close closes it: an
\* entry whose handle is closed has been closed by Close, once.
C33_EntriesHoldOpenHandles ==
    \A d \in Dirs :
        (fileWatchers[d].exists /\ ~fileWatchers[d].open)
            => (closes >= 1 /\ fileWatchers[d].closeCalls = 1)

\* C36: validation reports every required sub-field that holds its zero
\* value in a nested record the root holds through a pointer.
C36_ValidatorDescendsPointers ==
    [][(load.idx = Len(load.cfg) + 1 /\ load.idx > 1 /\ load'.idx = 0
            /\ load'.ret # "panic")
          => \A n \in DOMAIN load.cfg :
                (Kind(load.cfg[n]) = "pointer" /\ load.cfg[n] \in Fields)
                    => \A k \in Keys :
                          (RequiredTag(k) = "true" /\ config[load.cfg[n]][k] = "")
                              => <<load.cfg[n], k>> \in load'.errs]_vars

\* C34: when a reload is about to report success through OnChange, no
\* sub-field tagged required:"true" of the reloaded record holds its zero
\* value.
C34_RequiredHoldsAcrossReloads ==
    \A i \in DOMAIN loops :
        loops[i].pc = "onchange"
            => \A k \in Keys :
                  RequiredTag(k) = "true" => config[loops[i].field][k] # ""

\* C35: the iteration of loadConfig for an exported pointer field that is nil
\* neither panics nor fails: Load goes on to the next field.
C35_NilPointerAllocated ==
    [][\A f \in RootFields :
          (LoadFieldStep(f) /\ Kind(f) = "pointer" /\ NilPointer(f))
              => (~panicked' /\ load'.ret = "running")]_vars

\* C39: the callback is never stuck for good in its loop over the trigger
\* channels: when it is at the send on a channel, the channel has room or
\* somebody still receives from it.
C39_CallbackReturns ==
    startW.phase = "started" =>
        \A n \in 1..Len(startW.triggerChannels) :
            startW.pc = n =>
                \/ startW.pending[startW.triggerChannels[n]] < TriggerCap
                \/ startW.receiving[startW.triggerChannels[n]]

\* The 64-bit integer l fits a signed 32-bit integer: its upper half is the
\* sign extension of its lower half.
Fits32(l) ==
    \/ l[3] = 0 /\ l[4] = 0 /\ l[2] < 32768
    \/ l[3] = 65535 /\ l[4] = 65535 /\ l[2] >= 32768

\* C37: handleDefaults with a non-empty default tag: an int32 sub-field gets
\* exactly the integer the tag denotes, and ParsingError when the tag denotes
\* no integer of 32 bits; an int64 sub-field with a tag that is no integer and
\* a bool sub-field with a tag that is no boolean get ParsingError; a
\* sub-field of another kind than the six gets InvalidKindError.
C37_DefaultsParsedExactly ==
    (call.fn = "handleDefaults" /\ call.done /\ call.tag # <<>>) =>
        CASE call.kind = "int32" ->
               IF ParseInt(call.tag).err = "" /\ Fits32(ParseInt(call.tag).val)
               THEN call.err = "" /\ call.val.v = SubSeq(ParseInt(call.tag).val, 1, 2)
               ELSE call.err = "ParsingError"
          [] call.kind = "int64" ->
               ParseInt(call.tag).err # "" => call.err = "ParsingError"
          [] call.kind = "bool" ->
               call.tag \notin TrueTexts \cup FalseTexts => call.err = "ParsingError"
          [] call.kind \in {"float32", "float64", "string"} -> TRUE
          [] OTHER -> call.err = "InvalidKindError"

\* C38: after the load of a nested record of type "text" the first sub-field
\* of kind string holds the file content without its trailing newlines and
\* nothing else removed, every other sub-field holds its default, and the
\* load fails when the record has no sub-field of kind string.
C38_TextTrimsTrailingOnly ==
    (call.fn = "text" /\ call.done) =>
        IF FirstString(call.typ) = 0
        THEN call.err # ""
        ELSE /\ call.err = ""
             /\ call.rec[FirstString(call.typ)].v = TrimRight(call.data)
             /\ \A i \in DOMAIN call.typ :
                   i # FirstString(call.typ) => call.rec[i] = defaultsOf(call.typ)[i]

====
